---- MODULE Spec2Model ----
(***************************************************************************)
(* Model of src/app.py: the Markup Reducer (HTMLTextExtractor), the Link   *)
(* Classifier (LinkExtractor), the Crawl Orchestrator (scrape_articles)    *)
(* and the scrape endpoint.                                                *)
(*                                                                         *)
(* Text is a sequence of one-character strings, an HTML page is the        *)
(* sequence of events html.parser hands to the handlers, a URL is a record *)
(* of its parsed components.                                               *)
(***************************************************************************)
EXTENDS Integers, Sequences, FiniteSets, TLC

VARIABLES
    \* ---- HTMLTextExtractor instance under direct drive (SpecReducer) ----
    fed,            \* events handed to the handlers so far
    skip_depth,     \* HTMLTextExtractor._skip_depth
    pieces,         \* HTMLTextExtractor._pieces
    text,           \* value returned by get_text
    got_text,       \* TRUE once get_text has been called
    \* ---- one worker serving /api/scrape (SpecCrawl) ----
    pc,             \* position of the request being served
    served,         \* number of requests received so far
    request,        \* the request being served
    url,            \* scrape_articles: url
    debug,          \* scrape_articles: debug
    session,        \* scrape_articles: session (0 before _new_session)
    index_html,     \* scrape_articles: index_html
    article_links,  \* scrape_articles: article_links
    i,              \* scrape_articles: position of the loop in article_links
    page_html,      \* scrape_articles: page_html
    results,        \* scrape_articles: results
    response,       \* what scrape returned: [status, body]
    exc,            \* str() of the exception raised while serving, "" if none
    inflight,       \* the session.get call that has not returned yet
    fetchLog,       \* session.get calls of the current crawl, in order
    sessions,       \* every session created so far, by identity
    \* ---- LinkExtractor instance under direct drive (SpecClassifier) ----
    parser_base_url,    \* LinkExtractor.base_url, None before __init__
    parser_base_domain, \* LinkExtractor.base_domain
    parser_base_path,   \* LinkExtractor.base_path
    parser_links,       \* LinkExtractor.links
    relaxed,        \* TRUE once base_path was overwritten with "/"
    anchors         \* start tags handed to handle_starttag so far

rvars == <<fed, skip_depth, pieces, text, got_text>>
cvars == <<pc, served, request, url, debug, session, index_html, article_links,
           i, page_html, results, response, exc, inflight, fetchLog, sessions>>
lvars == <<parser_base_url, parser_base_domain, parser_base_path, parser_links,
           relaxed, anchors>>
vars == <<rvars, cvars, lvars>>

\* Python's None
None == [none |-> TRUE]
\* the empty string where a URL may stand
EmptyStr == [empty |-> TRUE]

\* ------------------------------------------------------------------------
\* Bounds
\* ------------------------------------------------------------------------
MaxEvents == 4      \* longest event stream fed to the reducer
MaxRequests == 2    \* requests served one after the other
MaxAnchors == 3     \* longest run of start tags fed to the classifier

\* ------------------------------------------------------------------------
\* Characters and strings
\* ------------------------------------------------------------------------
Whitespace == {" ", "\t", "\n"}

\* str.lower() on the tag names of the model
Lower(s) ==
    CASE s = "SCRIPT" -> "script"
      [] s = "Style"  -> "style"
      [] s = "A"      -> "a"
      [] OTHER        -> s

\* ------------------------------------------------------------------------
\* HTMLTextExtractor
\* ------------------------------------------------------------------------
SKIP_TAGS == {"script", "style", "noscript", "head"}

\* HTMLTextExtractor.__init__
HTMLTextExtractor_init == [skip_depth |-> 0, pieces |-> <<>>]

\* HTMLTextExtractor.handle_starttag
HTMLTextExtractor_handle_starttag(st, tag) ==
    IF Lower(tag) \in SKIP_TAGS
    THEN [st EXCEPT !.skip_depth = @ + 1]
    ELSE st

\* a decrement that is not clamped at zero
handle_endtag_unclamped(st, tag) ==
    IF Lower(tag) \in SKIP_TAGS
    THEN [st EXCEPT !.skip_depth = @ - 1]
    ELSE st

\* HTMLTextExtractor.handle_endtag
HTMLTextExtractor_handle_endtag(st, tag) ==
    IF Lower(tag) \in SKIP_TAGS /\ st.skip_depth > 0
    THEN [st EXCEPT !.skip_depth = @ - 1]
    ELSE st

\* HTMLTextExtractor.handle_data
HTMLTextExtractor_handle_data(st, data) ==
    IF st.skip_depth = 0
    THEN [st EXCEPT !.pieces = Append(@, data)]
    ELSE st

\* " ".join(pieces)
RECURSIVE Join(_)
Join(ps) ==
    IF ps = <<>> THEN <<>>
    ELSE IF Len(ps) = 1 THEN ps[1]
    ELSE ps[1] \o <<" ">> \o Join(Tail(ps))

\* re.sub(r"\s\s?", " ", raw): whitespace is replaced two characters at a time
RECURSIVE CollapseWsPairs(_)
CollapseWsPairs(s) ==
    IF s = <<>> THEN <<>>
    ELSE IF Head(s) \in Whitespace
         THEN IF Len(s) > 1 /\ s[2] \in Whitespace
              THEN <<" ">> \o CollapseWsPairs(Tail(Tail(s)))
              ELSE <<" ">> \o CollapseWsPairs(Tail(s))
         ELSE <<Head(s)>> \o CollapseWsPairs(Tail(s))

\* re.sub(r"\s+", " ", raw): every maximal run of whitespace becomes one space
RECURSIVE CollapseWs(_)
CollapseWs(s) ==
    IF s = <<>> THEN <<>>
    ELSE IF Head(s) \in Whitespace
         THEN IF Len(s) > 1 /\ s[2] \in Whitespace
              THEN CollapseWs(Tail(s))
              ELSE <<" ">> \o CollapseWs(Tail(s))
         ELSE <<Head(s)>> \o CollapseWs(Tail(s))

\* str.strip()
RECURSIVE LStrip(_)
LStrip(s) ==
    IF s # <<>> /\ Head(s) \in Whitespace THEN LStrip(Tail(s)) ELSE s

RECURSIVE RStrip(_)
RStrip(s) ==
    IF s # <<>> /\ s[Len(s)] \in Whitespace
    THEN RStrip(SubSeq(s, 1, Len(s) - 1))
    ELSE s

Strip(s) == RStrip(LStrip(s))

\* HTMLTextExtractor.get_text
HTMLTextExtractor_get_text(st) == Strip(CollapseWs(Join(st.pieces)))

\* the events html.parser produces for a page
StartEv(t) == [type |-> "start", tag |-> t]
EndEv(t)   == [type |-> "end", tag |-> t]
DataEv(d)  == [type |-> "data", data |-> d]

\* one event of the parser's stream dispatched to its handler
Dispatch(st, ev) ==
    CASE ev.type = "start" -> HTMLTextExtractor_handle_starttag(st, ev.tag)
      [] ev.type = "end"   -> HTMLTextExtractor_handle_endtag(st, ev.tag)
      [] ev.type = "data"  -> HTMLTextExtractor_handle_data(st, ev.data)

\* HTMLParser.feed: the events of the page, in document order
RECURSIVE Feed(_, _)
Feed(st, evs) ==
    IF evs = <<>> THEN st ELSE Feed(Dispatch(st, Head(evs)), Tail(evs))

\* extract_text
extract_text(html) == HTMLTextExtractor_get_text(Feed(HTMLTextExtractor_init, html))

\* ------------------------------------------------------------------------
\* URLs
\*
\* A URL is [scheme, netloc, path, query, fragment].  A path is the list
\* str.split("/") gives for it without the leading empty element:
\*   ""  is <<>>,  "/" is <<"">>,  "/a/b" is <<"a","b">>,  "/a/b/" is <<"a","b","">>
\* ------------------------------------------------------------------------
Url(scheme, netloc, path, query, fragment) ==
    [scheme |-> scheme, netloc |-> netloc, path |-> path,
     query |-> query, fragment |-> fragment]

\* str.lower() on host names and path segments of the model
LowerStr(s) ==
    CASE s = "Example.com" -> "example.com"
      [] s = "Tag"         -> "tag"
      [] s = "logo.PNG"    -> "logo.png"
      [] s = "Media-Centre" -> "media-centre"
      [] OTHER             -> s

\* the path segments of the model that end with one of IGNORE_EXTENSIONS
\* once lower-cased
IGNORE_EXTENSIONS_SEGMENTS == {"logo.png", "feed.xml"}

IGNORE_PATH_SEGMENTS == {"rss", "feed", "cdn-cgi", "tag", "category", "page", "author"}

\* [p for p in path.split("/") if p]
NonEmptySegments(path) == SelectSeq(path, LAMBDA s : s # "")

\* path.rstrip("/")
RECURSIVE RStripSlash(_)
RStripSlash(path) ==
    IF path # <<>> /\ path[Len(path)] = ""
    THEN RStripSlash(SubSeq(path, 1, Len(path) - 1))
    ELSE path

\* a prefix test that ignores case
StartsWithIgnoringCase(path, prefix) ==
    /\ Len(path) >= Len(prefix)
    /\ \A k \in 1..(Len(prefix) - 1) : LowerStr(path[k]) = LowerStr(prefix[k])

\* path.startswith(prefix) for a prefix that ends with "/"
StartsWith(path, prefix) ==
    /\ Len(path) >= Len(prefix)
    /\ SubSeq(path, 1, Len(prefix) - 1) = SubSeq(prefix, 1, Len(prefix) - 1)

\* path.lower().endswith(ext) for some ext of IGNORE_EXTENSIONS
EndsWithIgnoredExtension(path) ==
    /\ path # <<>>
    /\ LowerStr(path[Len(path)]) \in IGNORE_EXTENSIONS_SEGMENTS

\* An href attribute value:
\*   kind "abs"    scheme://netloc/path?query#fragment
\*   kind "root"   /path?query#fragment
\*   kind "rel"    path?query#fragment, relative to the base directory
\*   kind "frag"   #fragment
\*   kind "scheme" mailto:, tel: or javascript: address
\*   kind "empty"  the attribute is missing or ""
Href(kind, scheme, netloc, path, query, fragment) ==
    [kind |-> kind, scheme |-> scheme, netloc |-> netloc, path |-> path,
     query |-> query, fragment |-> fragment]

\* urllib.parse.urljoin for the href kinds that reach it
urljoin(base, href) ==
    CASE href.kind = "abs" ->
            Url(href.scheme, href.netloc, href.path, href.query, href.fragment)
      [] href.kind = "root" ->
            Url(base.scheme, base.netloc, href.path, href.query, href.fragment)
      [] href.kind = "rel" ->
            LET bdir == IF base.path # <<>> /\ base.path[Len(base.path)] # ""
                        THEN SubSeq(base.path, 1, Len(base.path) - 1)
                        ELSE base.path
                all  == bdir \o href.path
                merged == NonEmptySegments(SubSeq(all, 1, Len(all) - 1))
                              \o <<all[Len(all)]>>
            IN  Url(base.scheme, base.netloc, merged, href.query, href.fragment)

\* ------------------------------------------------------------------------
\* LinkExtractor
\* ------------------------------------------------------------------------
\* the path prefix computed from a URL's path
ParentPath(path) ==
    LET path_parts == NonEmptySegments(path)
    IN  IF Len(path_parts) >= 2
        THEN SubSeq(path_parts, 1, Len(path_parts) - 1) \o <<"">>
        ELSE IF path_parts # <<>> THEN path_parts \o <<"">> ELSE <<"">>

\* LinkExtractor.__init__
LinkExtractor_init(base_url) ==
    [base_url    |-> base_url,
     base_domain |-> LowerStr(base_url.netloc),
     base_path   |-> ParentPath(base_url.path),
     links       |-> <<>>]

\* _is_article_link without the test of the domain
is_article_link_any_domain(le, full_url) ==
    LET path     == Append(RStripSlash(full_url.path), "")
        segments == NonEmptySegments(full_url.path)
        lower_segments == {LowerStr(segments[k]) : k \in 1..Len(segments)}
    IN  /\ StartsWith(path, le.base_path)
        /\ path # le.base_path
        /\ Len(segments) >= 3
        /\ IGNORE_PATH_SEGMENTS \cap lower_segments = {}

\* _is_article_link with a depth test that is off by one and segments
\* compared as written
is_article_link_shallow(le, full_url) ==
    LET path     == Append(RStripSlash(full_url.path), "")
        segments == NonEmptySegments(full_url.path)
        plain_segments == {segments[k] : k \in 1..Len(segments)}
    IN  /\ LowerStr(full_url.netloc) = le.base_domain
        /\ StartsWith(path, le.base_path)
        /\ path # le.base_path
        /\ Len(segments) >= 2
        /\ IGNORE_PATH_SEGMENTS \cap plain_segments = {}

\* LinkExtractor._is_article_link
LinkExtractor_is_article_link(le, full_url) ==
    LET path     == Append(RStripSlash(full_url.path), "")
        segments == NonEmptySegments(full_url.path)
        lower_segments == {LowerStr(segments[k]) : k \in 1..Len(segments)}
    IN  /\ LowerStr(full_url.netloc) = le.base_domain
        /\ StartsWith(path, le.base_path)
        /\ path # le.base_path
        /\ Len(segments) >= 3
        /\ IGNORE_PATH_SEGMENTS \cap lower_segments = {}

\* a membership test that never finds the URL
InLinksNever(links, u) == FALSE

\* `full not in self.links`
InLinks(links, u) == \E k \in 1..Len(links) : links[k] = u

\* handle_starttag that puts a new link in front of the list
handle_starttag_prepend(le, tag, href) ==
    IF Lower(tag) # "a" THEN le
    ELSE IF href.kind = "empty" THEN le
    ELSE IF href.kind \in {"scheme", "frag"} THEN le
    ELSE LET full   == urljoin(le.base_url, href)
             nofrag == [full EXCEPT !.fragment = ""]
         IN  IF EndsWithIgnoredExtension(full.path) THEN le
             ELSE IF /\ full.scheme \in {"http", "https"}
                     /\ LinkExtractor_is_article_link(le, nofrag)
                     /\ ~InLinks(le.links, nofrag)
                  THEN [le EXCEPT !.links = <<nofrag>> \o @]
                  ELSE le

\* LinkExtractor.handle_starttag
LinkExtractor_handle_starttag(le, tag, href) ==
    IF Lower(tag) # "a" THEN le
    ELSE IF href.kind = "empty" THEN le
    ELSE IF href.kind \in {"scheme", "frag"} THEN le
    ELSE LET full   == urljoin(le.base_url, href)
             parsed == full
             nofrag == [full EXCEPT !.fragment = ""]
         IN  IF EndsWithIgnoredExtension(parsed.path) THEN le
             ELSE IF /\ parsed.scheme \in {"http", "https"}
                     /\ LinkExtractor_is_article_link(le, nofrag)
                     /\ ~InLinks(le.links, nofrag)
                  THEN [le EXCEPT !.links = Append(@, nofrag)]
                  ELSE le

\* HTMLParser.feed on a LinkExtractor: only start tags reach a handler
RECURSIVE FeedLinks(_, _)
FeedLinks(le, evs) ==
    IF evs = <<>> THEN le
    ELSE FeedLinks(IF Head(evs).type = "start"
                   THEN LinkExtractor_handle_starttag(le, Head(evs).tag, Head(evs).href)
                   ELSE le,
                   Tail(evs))

\* extract_links
extract_links(html, base_url) == FeedLinks(LinkExtractor_init(base_url), html).links

\* ------------------------------------------------------------------------
\* The pages and requests of the model
\* ------------------------------------------------------------------------
Anchor(h) == [type |-> "start", tag |-> "a", href |-> h]
OtherTag(t, h) == [type |-> "start", tag |-> t, href |-> h]

IndexUrl1 == Url("https", "example.com", <<"media-centre", "news-releases", "">>, "", "")
IndexUrl2 == Url("http", "Example.com", <<"news">>, "", "")

NoHref     == Href("empty", "", "", <<>>, "", "")
HrefStory1 == Href("root", "", "", <<"media-centre", "news-releases", "2024", "story-one">>, "", "")
HrefStory1Frag == Href("root", "", "", <<"media-centre", "news-releases", "2024", "story-one">>, "", "storyline")
HrefStory2 == Href("rel", "", "", <<"2024", "story-two">>, "", "")
HrefStory3 == Href("abs", "https", "Example.com", <<"media-centre", "2023", "story-three", "">>, "p=2", "")
HrefNews1  == Href("abs", "http", "example.com", <<"news", "2024", "story-one">>, "", "")
HrefTag    == Href("root", "", "", <<"media-centre", "Tag", "politics">>, "", "")
HrefOther  == Href("abs", "https", "other-domain.com", <<"media-centre", "news-releases", "2024", "story-one">>, "", "")
HrefLogo   == Href("root", "", "", <<"media-centre", "news-releases", "logo.PNG">>, "", "")
HrefMailto == Href("scheme", "mailto", "", <<>>, "", "")
HrefFrag   == Href("frag", "", "", <<>>, "", "section2")
HrefFtp    == Href("abs", "ftp", "example.com", <<"media-centre", "news-releases", "2024", "story-one">>, "", "")

IndexPages ==
    { <<OtherTag("p", NoHref), Anchor(HrefTag), Anchor(HrefFrag)>>,
      <<Anchor(HrefStory1), Anchor(HrefTag), Anchor(HrefStory1Frag), Anchor(HrefLogo),
        Anchor(HrefStory2), Anchor(HrefNews1)>>,
      <<Anchor(HrefStory3), Anchor(HrefOther), OtherTag("A", HrefStory1), Anchor(HrefMailto),
        Anchor(NoHref), Anchor(HrefStory2), Anchor(HrefFtp), OtherTag("p", HrefStory1)>> }

ArticlePages ==
    { <<StartEv("p"), DataEv(<<"a">>), StartEv("SCRIPT"), DataEv(<<"b">>),
        EndEv("script"), DataEv(<<" ", "b", "\n">>), EndEv("p")>>,
      <<StartEv("head"), DataEv(<<"a">>), EndEv("head"), DataEv(<<"\t">>)>>,
      <<DataEv(<<"b">>)>> }

\* str(exc) of the exceptions session.get and raise_for_status raise
FetchErrors == {"Timeout", "HTTP Error 404"}

\* JSON bodies: not JSON at all, an array, an object without "url", an
\* object with "url"
Bodies ==
    { [json |-> "invalid"],
      [json |-> "array"],
      [json |-> "object", url |-> None],
      [json |-> "object", url |-> IndexUrl1] }

Requests ==
    [args_url : {None, EmptyStr, IndexUrl1, IndexUrl2},
     is_json : BOOLEAN,
     body : Bodies,
     args_debug : {"", "TRUE", "0"}]

\* ------------------------------------------------------------------------
\* scrape: the request's parameters
\* ------------------------------------------------------------------------
\* truth value of a URL-or-None-or-"" value
Truthy(v) == v # None /\ v # EmptyStr

\* flask_request.get_json(silent=True, force=True)
get_json(body) == IF body.json = "invalid" THEN None ELSE body

\* value.get("url"): [raises, value]
GetUrl(value) ==
    IF value # None /\ value.json = "object"
    THEN [raises |-> FALSE, value |-> value.url]
    ELSE [raises |-> TRUE, value |-> None]

\* lines 207-209 of scrape: [raises, value]
RequestUrl(req) ==
    IF ~Truthy(req.args_url) /\ req.is_json
    THEN GetUrl(get_json(req.body))
    ELSE [raises |-> FALSE, value |-> req.args_url]

\* str.lower() on the values of the debug parameter
LowerFlag(s) == IF s = "TRUE" THEN "true" ELSE s

\* line 215 of scrape
RequestDebug(req) == LowerFlag(req.args_debug) \in {"1", "true"}

NoResponse == [status |-> 0, body |-> None]
MissingUrlResponse ==
    [status |-> 400, body |-> [error |-> "Missing required parameter: url"]]
\* an except branch that answers with an empty result list
ErrorResponseAsEmptyResults(e) == [status |-> 200, body |-> [results |-> <<>>]]

\* the except branch of scrape
ErrorResponse(e) == [status |-> 500, body |-> [error |-> e]]
\* jsonify(results); the list is held in a field so that every body is a
\* record
OkResponse(res) == [status |-> 200, body |-> [results |-> res]]

\* ------------------------------------------------------------------------
\* Sessions and fetch_html
\*
\* A session is known by its identity, its position in `sessions`.  Each
\* entry records the request that created it, the requests whose fetches
\* used it, and whether it is open.  No statement of app.py closes a
\* session or uses one as a context manager, so no action changes `open`.
\*
\* scrape_articles keeps its session in a local variable and the module has
\* no other mutable state, so requests are served one after the other here.
\* ------------------------------------------------------------------------
\* _new_session: the identity of the session it returns
new_session(all) == Len(all) + 1

\* a fetch_html that ignores the session it is given
fetch_html_session_ignored(sess, all) == new_session(all)

\* fetch_html: the session whose get is called
fetch_html_session(sess, all) ==
    IF sess = 0 THEN new_session(all) ELSE sess

\* one session.get call: what was asked, on which session, and how it ended
LogEntry(u, kind, pos, sess) ==
    [url |-> u, kind |-> kind, pos |-> pos, session |-> sess,
     outcome |-> [state |-> "pending"]]

Returned(html) == [state |-> "ok", html |-> html]
Failed(e) == [state |-> "failed", exc |-> e]

\* a get that hands control back while the transfer is still running
CompletedLater(log, outcome) == log

\* the log once the call in flight has ended
Completed(log, outcome) == [log EXCEPT ![Len(log)].outcome = outcome]

\* the sessions after fetch_html(url, session=sess) called session.get
SessionsAfterGet(sess, all) ==
    LET used == fetch_html_session(sess, all)
        base == IF used > Len(all)
                THEN Append(all, [creator |-> served, open |-> TRUE, users |-> {}])
                ELSE all
    IN  [base EXCEPT ![used].users = @ \cup {served}]

\* ------------------------------------------------------------------------
\* scrape_articles
\* ------------------------------------------------------------------------
\* the record of the debug branch
DebugRecord(u, html, links) ==
    [debug |-> TRUE,
     html_length |-> Len(html),
     base_path_used |-> ParentPath(u.path),
     filtered_article_links |-> links,
     all_same_domain_links |->
         FeedLinks([LinkExtractor_init(u) EXCEPT !.base_path = <<"">>], html).links]

\* a debug flag that is never looked at
DebugBranchSkipped(d) == FALSE

\* the branch `if debug:`
DebugBranch(d) == d

\* lines 180-182 without the test `if content:`
RecordContentUnguarded(res, link, html) ==
    Append(res, [url |-> link, content |-> extract_text(html)])

\* lines 180-182: the results after a candidate's page was fetched
RecordContent(res, link, html) ==
    LET content == extract_text(html)
    IN  IF content # <<>>
        THEN Append(res, [url |-> link, content |-> content])
        ELSE res

\* an except branch that only logs
RecordErrorSwallowed(res, link, e) == res

\* lines 183-185: the results after a candidate's fetch raised
RecordError(res, link, e) == Append(res, [url |-> link, error |-> e])

\* an except branch after which the same candidate is tried again
AfterErrorRetry(k) == k

\* the loop position after the except branch
AfterError(k) == k + 1

CrawlLocalsReset ==
    /\ url' = None
    /\ debug' = FALSE
    /\ session' = 0
    /\ index_html' = <<>>
    /\ article_links' = <<>>
    /\ i' = 0
    /\ page_html' = <<>>
    /\ results' = <<>>
    /\ inflight' = None
    /\ fetchLog' = <<>>

CrawlIdle ==
    /\ pc = "Idle"
    /\ served = 0
    /\ request = None
    /\ url = None
    /\ debug = FALSE
    /\ session = 0
    /\ index_html = <<>>
    /\ article_links = <<>>
    /\ i = 0
    /\ page_html = <<>>
    /\ results = <<>>
    /\ response = NoResponse
    /\ exc = ""
    /\ inflight = None
    /\ fetchLog = <<>>
    /\ sessions = <<>>

ReducerIdle ==
    /\ fed = <<>>
    /\ skip_depth = 0
    /\ pieces = <<>>
    /\ text = <<>>
    /\ got_text = FALSE

ClassifierIdle ==
    /\ parser_base_url = None
    /\ parser_base_domain = ""
    /\ parser_base_path = <<>>
    /\ parser_links = <<>>
    /\ relaxed = FALSE
    /\ anchors = <<>>

InitCrawl == CrawlIdle /\ ReducerIdle /\ ClassifierIdle

\* scrape, lines 205-216: the request arrives and its parameters are read
scrape ==
    /\ pc = "Idle"
    /\ served < MaxRequests
    /\ \E req \in Requests :
        LET u == RequestUrl(req) IN
        /\ request' = req
        /\ served' = served + 1
        /\ IF u.raises
           THEN /\ pc' = "Raised"
                /\ exc' = "AttributeError"
                /\ UNCHANGED <<url, debug, response>>
           ELSE IF ~Truthy(u.value)
           THEN /\ pc' = "Responded"
                /\ response' = MissingUrlResponse
                /\ UNCHANGED <<url, debug, exc>>
           ELSE /\ pc' = "CrawlStart"
                /\ url' = u.value
                /\ debug' = RequestDebug(req)
                /\ UNCHANGED <<response, exc>>
    /\ UNCHANGED <<session, index_html, article_links, i, page_html, results,
                   inflight, fetchLog, sessions>>
    /\ UNCHANGED rvars
    /\ UNCHANGED lvars

\* scrape_articles, line 153
create_session ==
    /\ pc = "CrawlStart"
    /\ session' = new_session(sessions)
    /\ sessions' = IF new_session(sessions) > Len(sessions)
                   THEN Append(sessions, [creator |-> served, open |-> TRUE, users |-> {}])
                   ELSE sessions
    /\ pc' = "IndexFetch"
    /\ UNCHANGED <<served, request, url, debug, index_html, article_links, i,
                   page_html, results, response, exc, inflight, fetchLog>>
    /\ UNCHANGED rvars
    /\ UNCHANGED lvars

\* scrape_articles line 154 calling fetch_html up to session.get
index_fetch_start ==
    /\ pc = "IndexFetch"
    /\ inflight' = [url |-> url, kind |-> "index"]
    /\ fetchLog' = Append(fetchLog, LogEntry(url, "index", 0, fetch_html_session(session, sessions)))
    /\ sessions' = SessionsAfterGet(session, sessions)
    /\ pc' = "IndexFetching"
    /\ UNCHANGED <<served, request, url, debug, session, index_html, article_links,
                   i, page_html, results, response, exc>>
    /\ UNCHANGED rvars
    /\ UNCHANGED lvars

\* fetch_html returns the index page
index_fetch_ok ==
    /\ pc = "IndexFetching"
    /\ \E html \in IndexPages :
        /\ index_html' = html
        /\ fetchLog' = Completed(fetchLog, Returned(html))
    /\ inflight' = None
    /\ pc' = "IndexFetched"
    /\ UNCHANGED <<served, request, url, debug, session, article_links, i,
                   page_html, results, response, exc, sessions>>
    /\ UNCHANGED rvars
    /\ UNCHANGED lvars

\* fetch_html raises on the index page: nothing in scrape_articles catches
\* it, the call is left
index_fetch_fail ==
    /\ pc = "IndexFetching"
    /\ \E e \in FetchErrors :
        /\ exc' = e
        /\ fetchLog' = Completed(fetchLog, Failed(e))
    /\ inflight' = None
    /\ pc' = "CrawlRaised"
    /\ UNCHANGED <<served, request, url, debug, session, index_html, article_links,
                   i, page_html, results, response, sessions>>
    /\ UNCHANGED rvars
    /\ UNCHANGED lvars

\* scrape, lines 218-220
scrape_except ==
    /\ pc = "CrawlRaised"
    /\ response' = ErrorResponse(exc)
    /\ pc' = "Responded"
    /\ UNCHANGED <<served, request, url, debug, session, index_html, article_links,
                   i, page_html, results, exc, inflight, fetchLog, sessions>>
    /\ UNCHANGED rvars
    /\ UNCHANGED lvars

\* scrape_articles, line 155
classify ==
    /\ pc = "IndexFetched"
    /\ article_links' = extract_links(index_html, url)
    /\ pc' = "Classified"
    /\ UNCHANGED <<served, request, url, debug, session, index_html, i,
                   page_html, results, response, exc, inflight, fetchLog, sessions>>
    /\ UNCHANGED rvars
    /\ UNCHANGED lvars

\* scrape_articles, lines 157-173, and scrape, line 217
debug_report ==
    /\ pc = "Classified"
    /\ DebugBranch(debug)
    /\ response' = OkResponse(<<DebugRecord(url, index_html, article_links)>>)
    /\ pc' = "Responded"
    /\ UNCHANGED <<served, request, url, debug, session, index_html, article_links,
                   i, page_html, results, exc, inflight, fetchLog, sessions>>
    /\ UNCHANGED rvars
    /\ UNCHANGED lvars

\* scrape_articles, lines 175-177: the loop is entered
loop_start ==
    /\ pc = "Classified"
    /\ ~DebugBranch(debug)
    /\ results' = <<>>
    /\ i' = 1
    /\ pc' = "Recorded"
    /\ UNCHANGED <<served, request, url, debug, session, index_html, article_links,
                   page_html, response, exc, inflight, fetchLog, sessions>>
    /\ UNCHANGED rvars
    /\ UNCHANGED lvars

\* line 179 calling fetch_html up to session.get
link_fetch_start ==
    /\ pc = "Recorded"
    /\ i <= Len(article_links)
    /\ inflight' = [url |-> article_links[i], kind |-> "candidate"]
    /\ fetchLog' = Append(fetchLog, LogEntry(article_links[i], "candidate", i,
                                             fetch_html_session(session, sessions)))
    /\ sessions' = SessionsAfterGet(session, sessions)
    /\ pc' = "PerLinkFetch"
    /\ UNCHANGED <<served, request, url, debug, session, index_html, article_links,
                   i, page_html, results, response, exc>>
    /\ UNCHANGED rvars
    /\ UNCHANGED lvars

\* fetch_html returns the candidate's page
link_fetch_ok ==
    /\ pc = "PerLinkFetch"
    /\ \E html \in ArticlePages :
        /\ page_html' = html
        /\ fetchLog' = Completed(fetchLog, Returned(html))
    /\ inflight' = None
    /\ pc' = "PerLinkReduce"
    /\ UNCHANGED <<served, request, url, debug, session, index_html, article_links,
                   i, results, response, exc, sessions>>
    /\ UNCHANGED rvars
    /\ UNCHANGED lvars

\* fetch_html raises on a candidate: lines 183-185
link_fetch_fail ==
    /\ pc = "PerLinkFetch"
    /\ \E e \in FetchErrors :
        /\ results' = RecordError(results, article_links[i], e)
        /\ fetchLog' = Completed(fetchLog, Failed(e))
    /\ inflight' = None
    /\ i' = AfterError(i)
    /\ pc' = "Recorded"
    /\ UNCHANGED <<served, request, url, debug, session, index_html, article_links,
                   page_html, response, exc, sessions>>
    /\ UNCHANGED rvars
    /\ UNCHANGED lvars

\* lines 180-182
link_reduce ==
    /\ pc = "PerLinkReduce"
    /\ results' = RecordContent(results, article_links[i], page_html)
    /\ i' = i + 1
    /\ pc' = "Recorded"
    /\ UNCHANGED <<served, request, url, debug, session, index_html, article_links,
                   page_html, response, exc, inflight, fetchLog, sessions>>
    /\ UNCHANGED rvars
    /\ UNCHANGED lvars

\* line 187, and scrape, line 217
crawl_return ==
    /\ pc = "Recorded"
    /\ i > Len(article_links)
    /\ response' = OkResponse(results)
    /\ pc' = "Responded"
    /\ UNCHANGED <<served, request, url, debug, session, index_html, article_links,
                   i, page_html, results, exc, inflight, fetchLog, sessions>>
    /\ UNCHANGED rvars
    /\ UNCHANGED lvars

\* the worker is free for the next request; the locals of the finished call
\* are gone
next_request ==
    /\ pc \in {"Responded", "Raised"}
    /\ served < MaxRequests
    /\ pc' = "Idle"
    /\ request' = None
    /\ response' = NoResponse
    /\ exc' = ""
    /\ CrawlLocalsReset
    /\ UNCHANGED <<served, sessions>>
    /\ UNCHANGED rvars
    /\ UNCHANGED lvars

NextCrawl ==
    \/ scrape
    \/ create_session
    \/ index_fetch_start
    \/ index_fetch_ok
    \/ index_fetch_fail
    \/ scrape_except
    \/ classify
    \/ debug_report
    \/ loop_start
    \/ link_fetch_start
    \/ link_fetch_ok
    \/ link_fetch_fail
    \/ link_reduce
    \/ crawl_return
    \/ next_request

SpecCrawl == InitCrawl /\ [][NextCrawl]_vars

\* ------------------------------------------------------------------------
\* Properties of the crawl (SpecCrawl)
\* ------------------------------------------------------------------------
CandidateEntries == SelectSeq(fetchLog, LAMBDA e : e.kind = "candidate")
IndexEntries     == SelectSeq(fetchLog, LAMBDA e : e.kind = "index")

\* the index fetch of the crawl being served has failed
IndexFetchFailed ==
    /\ fetchLog # <<>>
    /\ fetchLog[1].kind = "index"
    /\ fetchLog[1].outcome.state = "failed"

\* scrape_articles returned its result list in normal mode
NormalCrawlDone ==
    /\ pc = "Responded"
    /\ response.status = 200
    /\ ~debug

\* the records of res about the URL u
RecordsOf(res, u) == SelectSeq(res, LAMBDA r : r.url = u)

\* position of the URL u in the candidate list, 0 if absent
PosOf(u) ==
    IF \E k \in 1..Len(article_links) : article_links[k] = u
    THEN CHOOSE k \in 1..Len(article_links) : article_links[k] = u
    ELSE 0

\* the log entry of the candidate at position k, once its fetch has ended
EndedFetch(k) ==
    {n \in 1..Len(fetchLog) : /\ fetchLog[n].kind = "candidate"
                              /\ fetchLog[n].pos = k
                              /\ fetchLog[n].outcome.state # "pending"}

\* C1: when the index-page fetch fails, no candidate is fetched, no article
\* record exists, and the endpoint answers with one 500 response that
\* carries the error message and no results.
C1_IndexFailureIsFatal ==
    IndexFetchFailed =>
        /\ Len(fetchLog) = 1
        /\ results = <<>>
        /\ article_links = <<>>
        /\ pc \in {"CrawlRaised", "Responded"}
        /\ exc = fetchLog[1].outcome.exc
        /\ pc = "Responded" => response = [status |-> 500, body |-> [error |-> exc]]

C1_Witness ==
    /\ IndexFetchFailed
    /\ pc = "Responded"
    /\ response.status = 500

\* C2: in normal mode every candidate whose fetch failed has exactly one
\* {url, error} record, every candidate has been fetched whatever failed
\* before it, and the records are in the candidates' order.
C2_FailuresIsolatedInOrder ==
    NormalCrawlDone =>
        /\ \A k \in 1..Len(article_links) :
            /\ EndedFetch(k) # {}
            /\ \A n \in EndedFetch(k) :
                fetchLog[n].outcome.state = "failed" =>
                    RecordsOf(response.body.results, article_links[k]) =
                        <<[url |-> article_links[k], error |-> fetchLog[n].outcome.exc]>>
        /\ \A a, b \in 1..Len(response.body.results) :
            a < b => /\ PosOf(response.body.results[a].url) > 0
                     /\ PosOf(response.body.results[a].url) < PosOf(response.body.results[b].url)

\* three candidates with non-empty text, the second one failed: two success
\* records and one error record, in candidate order
C2_Witness ==
    /\ NormalCrawlDone
    /\ Len(article_links) = 3
    /\ Len(response.body.results) = 3
    /\ "content" \in DOMAIN response.body.results[1]
    /\ "error" \in DOMAIN response.body.results[2]
    /\ "content" \in DOMAIN response.body.results[3]

\* C3: no record has empty content, a candidate whose page reduces to the
\* empty text has no record at all, and every record has exactly one of
\* content and error.
C3_NoEmptyContent ==
    /\ \A n \in 1..Len(results) :
        \/ DOMAIN results[n] = {"url", "content"} /\ results[n].content # <<>>
        \/ DOMAIN results[n] = {"url", "error"}
    /\ \A n \in 1..Len(fetchLog) :
        ( /\ fetchLog[n].kind = "candidate"
          /\ fetchLog[n].outcome.state = "ok"
          /\ extract_text(fetchLog[n].outcome.html) = <<>> )
        => RecordsOf(results, fetchLog[n].url) = <<>>
    /\ NormalCrawlDone => response.body.results = results

C3_Witness ==
    /\ NormalCrawlDone
    /\ \E n \in 1..Len(fetchLog) :
        /\ fetchLog[n].kind = "candidate"
        /\ fetchLog[n].outcome.state = "ok"
        /\ extract_text(fetchLog[n].outcome.html) = <<>>
    /\ Len(response.body.results) = Len(article_links) - 1

\* C4: in debug mode only the index page is fetched, whatever the candidate
\* list is, and the result is exactly one diagnostic record.
C4_DebugFetchesIndexOnly ==
    debug =>
        /\ CandidateEntries = <<>>
        /\ Len(fetchLog) <= 1
        /\ pc \notin {"PerLinkFetch", "PerLinkReduce", "Recorded"}
        /\ (pc = "Responded" /\ response.status = 200) =>
            /\ Len(response.body.results) = 1
            /\ response.body.results[1].debug = TRUE
            /\ response.body.results[1].filtered_article_links = article_links

C4_Witness ==
    /\ debug
    /\ pc = "Responded"
    /\ response.status = 200
    /\ Len(article_links) >= 2

\* C5: every fetch of a crawl uses the session the crawl created at its
\* start, no fetch creates another session, and no session is used by two
\* crawl invocations.
C5_OneSessionPerCrawl ==
    /\ \A n \in 1..Len(fetchLog) :
        /\ session # 0
        /\ fetchLog[n].session = session
        /\ sessions[session].creator = served
    /\ \A s \in 1..Len(sessions) : sessions[s].users \subseteq {sessions[s].creator}
    /\ \A s, t \in 1..Len(sessions) :
        s # t => sessions[s].creator # sessions[t].creator

\* the second crawl has fetched its index page and a candidate on its own
\* session
C5_Witness ==
    /\ served = 2
    /\ Len(sessions) = 2
    /\ Len(fetchLog) >= 2
    /\ fetchLog[2].session = session
    /\ sessions[1].users = {1}
    /\ sessions[2].users = {2}

\* C6: when a crawl has completed, on any exit path, the session it created
\* has been released.
C6_SessionReleased ==
    (pc = "Responded" /\ session # 0) => ~sessions[session].open

\* C7: no fetch is repeated: one attempt for the index URL, one attempt per
\* candidate, 1 + the number of candidates attempts in a normal crawl.
C7_EachFetchOnce ==
    /\ Len(IndexEntries) <= 1
    /\ \A k \in 1..Len(article_links) :
        Cardinality({n \in 1..Len(fetchLog) :
                        fetchLog[n].kind = "candidate" /\ fetchLog[n].pos = k}) <= 1
    /\ NormalCrawlDone =>
        /\ Len(fetchLog) = 1 + Len(article_links)
        /\ fetchLog[1].kind = "index"
        /\ fetchLog[1].url = url
        /\ \A k \in 1..Len(article_links) :
            /\ fetchLog[k + 1].kind = "candidate"
            /\ fetchLog[k + 1].url = article_links[k]

\* a normal crawl of three candidates has ended and one of its fetches failed
C7_Witness ==
    /\ NormalCrawlDone
    /\ Len(article_links) = 3
    /\ Len(fetchLog) = 4
    /\ \E n \in 2..4 : fetchLog[n].outcome.state = "failed"

\* C8: every request is answered with 400 and an error message (URL
\* missing), 500 and an error message (the crawl raised) or 200 and the
\* results; no request leaves the handler with an unhandled exception.
C8_AlwaysStructuredResponse ==
    /\ pc # "Raised"
    /\ pc = "Responded" =>
        \/ /\ response.status = 400
           /\ DOMAIN response.body = {"error"}
           /\ ~Truthy(RequestUrl(request).value)
        \/ /\ response.status = 500
           /\ DOMAIN response.body = {"error"}
           /\ exc # ""
        \/ /\ response.status = 200
           /\ exc = ""

\* the candidate fetch logged at n has ended and has been recorded (content
\* or error) or, its page reducing to the empty text, dropped
Handled(n) ==
    LET e == fetchLog[n]
        recs == RecordsOf(results, e.url)
    IN  CASE e.outcome.state = "failed" ->
                recs = <<[url |-> e.url, error |-> e.outcome.exc]>>
          [] e.outcome.state = "ok" ->
                IF extract_text(e.outcome.html) # <<>>
                THEN recs = <<[url |-> e.url, content |-> extract_text(e.outcome.html)]>>
                ELSE recs = <<>>
          [] OTHER -> FALSE

PendingFetches == {n \in 1..Len(fetchLog) : fetchLog[n].outcome.state = "pending"}

\* C19: in normal mode the index fetch has returned before the page is
\* classified, the candidate list is the classifier's complete output
\* before any candidate is fetched, the n-th candidate fetch is the fetch
\* of the n-th candidate and starts only when every earlier candidate has
\* been fetched and recorded or dropped, and at most one fetch is in
\* flight.
C19_StrictlySequential ==
    ~debug =>
        /\ Cardinality(PendingFetches) <= 1
        /\ PendingFetches \subseteq {Len(fetchLog)}
        /\ (inflight # None) <=> (PendingFetches # {})
        /\ inflight # None =>
            /\ pc \in {"IndexFetching", "PerLinkFetch"}
            /\ inflight.url = fetchLog[Len(fetchLog)].url
        /\ (pc \in {"Classified", "Recorded", "PerLinkFetch", "PerLinkReduce"}
                \/ article_links # <<>>) =>
            /\ fetchLog # <<>>
            /\ fetchLog[1].outcome.state = "ok"
        /\ \A n \in 1..Len(fetchLog) :
            IF n = 1
            THEN fetchLog[n].kind = "index" /\ fetchLog[n].url = url
            ELSE /\ fetchLog[n].kind = "candidate"
                 /\ fetchLog[1].outcome.state = "ok"
                 /\ article_links = extract_links(fetchLog[1].outcome.html, url)
                 /\ n - 1 <= Len(article_links)
                 /\ fetchLog[n].pos = n - 1
                 /\ fetchLog[n].url = article_links[n - 1]
                 /\ \A m \in 2..(n - 1) : Handled(m)

\* the third candidate is being fetched after the first failed and was
\* recorded and the second reduced to the empty text and was dropped
C19_Witness ==
    /\ ~debug
    /\ pc = "PerLinkFetch"
    /\ Len(fetchLog) = 4
    /\ fetchLog[2].outcome.state = "failed"
    /\ fetchLog[3].outcome.state = "ok"
    /\ extract_text(fetchLog[3].outcome.html) = <<>>
    /\ fetchLog[4].outcome.state = "pending"
    /\ Len(results) = 1

\* ------------------------------------------------------------------------
\* The crawl under the fixed timeout of fetch_html
\* ------------------------------------------------------------------------
\* The control points of a crawl that has been started and has not yet
\* answered.  In each of them the next statement of scrape_articles or of
\* the handler around it can run (in "IndexFetching" and "PerLinkFetch" it
\* is session.get(url, timeout=30) returning or raising), and each of
\* these steps moves pc.
CrawlPcs ==
    {"CrawlStart", "IndexFetch", "IndexFetching", "IndexFetched", "CrawlRaised",
     "Classified", "Recorded", "PerLinkFetch", "PerLinkReduce"}

\* a started crawl takes its next step
CrawlAdvance ==
    /\ pc \in CrawlPcs
    /\ pc' \in CrawlPcs \cup {"Responded"}

\* the interpreter keeps running the call, and every fetch returns or
\* raises within its timeout
SpecCrawlFair == SpecCrawl /\ WF_pc(CrawlAdvance)

\* the crawl has ended with its result list or with the failure of the
\* index fetch
CrawlEnded ==
    /\ pc = "Responded"
    /\ \/ response.status = 200 /\ exc = ""
       \/ response.status = 500 /\ IndexFetchFailed

\* a fetch is started on a candidate that has been fetched before
Revisit ==
    /\ Len(fetchLog') = Len(fetchLog) + 1
    /\ fetchLog'[Len(fetchLog')].kind = "candidate"
    /\ \E m \in 1..Len(fetchLog) :
        /\ fetchLog[m].kind = "candidate"
        /\ \/ fetchLog[m].pos = fetchLog'[Len(fetchLog')].pos
           \/ fetchLog[m].url = fetchLog'[Len(fetchLog')].url

\* C20: every crawl that is started ends, with its result list or with the
\* failure of the index fetch, every per-link step is left again, and no
\* candidate is fetched a second time.
C20_CrawlTerminates ==
    /\ (pc = "CrawlStart") ~> CrawlEnded
    /\ (pc \in {"PerLinkFetch", "PerLinkReduce"}) ~> (pc = "Recorded")
    /\ [][~Revisit]_vars

\* a crawl of three candidates has ended although every candidate fetch
\* failed
C20_Witness ==
    /\ NormalCrawlDone
    /\ Len(article_links) = 3
    /\ Len(fetchLog) = 4
    /\ \A n \in 2..4 : fetchLog[n].outcome.state = "failed"
    /\ Len(response.body.results) = 3

\* ------------------------------------------------------------------------
\* The reducer driven event by event
\* ------------------------------------------------------------------------
ReducerTags == {"script", "Style", "noscript", "head", "p"}
\* text pieces as handle_data receives them, character references already
\* decoded: "&lt;b&gt;" arrives as <b>, "a&amp;b" as a&b
ReducerData == { <<"a">>, <<" ", "b", "\n">>, <<"\t">>, <<"<", "b", ">">>, <<"a", "&", "b">> }

ReducerState == [skip_depth |-> skip_depth, pieces |-> pieces]

InitReducer ==
    /\ CrawlIdle
    /\ ClassifierIdle
    /\ fed = <<>>
    /\ skip_depth = HTMLTextExtractor_init.skip_depth
    /\ pieces = HTMLTextExtractor_init.pieces
    /\ text = <<>>
    /\ got_text = FALSE

Deliver(ev, st) ==
    /\ ~got_text
    /\ Len(fed) < MaxEvents
    /\ fed' = Append(fed, ev)
    /\ skip_depth' = st.skip_depth
    /\ pieces' = st.pieces
    /\ UNCHANGED <<text, got_text>>
    /\ UNCHANGED cvars
    /\ UNCHANGED lvars

handle_starttag ==
    \E t \in ReducerTags :
        Deliver(StartEv(t), HTMLTextExtractor_handle_starttag(ReducerState, t))

handle_endtag ==
    \E t \in ReducerTags :
        Deliver(EndEv(t), HTMLTextExtractor_handle_endtag(ReducerState, t))

handle_data ==
    \E d \in ReducerData :
        Deliver(DataEv(d), HTMLTextExtractor_handle_data(ReducerState, d))

get_text ==
    /\ ~got_text
    /\ text' = HTMLTextExtractor_get_text(ReducerState)
    /\ got_text' = TRUE
    /\ UNCHANGED <<fed, skip_depth, pieces>>
    /\ UNCHANGED cvars
    /\ UNCHANGED lvars

NextReducer ==
    \/ handle_starttag
    \/ handle_endtag
    \/ handle_data
    \/ get_text

SpecReducer == InitReducer /\ [][NextReducer]_vars

\* ------------------------------------------------------------------------
\* Properties of the Markup Reducer (SpecReducer)
\* ------------------------------------------------------------------------
IsSkipEnd(ev) == ev.type = "end" /\ Lower(ev.tag) \in SKIP_TAGS

\* the step delivered the event ev to its handler
Delivered(ev) == fed' = Append(fed, ev)

\* C9: the suppression depth is a non-negative integer in every reachable
\* state, and a close tag of a suppressed kind that arrives at depth zero
\* leaves the depth at zero.
C9_DepthNeverNegative ==
    [][ /\ skip_depth \in Nat
        /\ skip_depth' \in Nat
        /\ \A t \in ReducerTags :
            (Delivered(EndEv(t)) /\ IsSkipEnd(EndEv(t)) /\ skip_depth = 0)
                => skip_depth' = 0 ]_vars

\* a close tag of a suppressed kind has just been handled at depth zero
C9_Witness ==
    /\ fed # <<>>
    /\ IsSkipEnd(fed[Len(fed)])
    /\ Feed(HTMLTextExtractor_init, SubSeq(fed, 1, Len(fed) - 1)).skip_depth = 0
    /\ skip_depth = 0
    /\ Len(fed) >= 2

\* number of elements of the kind `kind` that are open after the events evs
RECURSIVE OpenOfKind(_, _)
OpenOfKind(evs, kind) ==
    IF evs = <<>> THEN 0
    ELSE LET before == OpenOfKind(SubSeq(evs, 1, Len(evs) - 1), kind)
             ev == evs[Len(evs)]
         IN  IF ev.type = "start" /\ Lower(ev.tag) = kind THEN before + 1
             ELSE IF ev.type = "end" /\ Lower(ev.tag) = kind /\ before > 0 THEN before - 1
             ELSE before

\* the stream evs with the event ev inserted after its first n events
InsertAt(evs, n, ev) == SubSeq(evs, 1, n) \o <<ev>> \o SubSeq(evs, n + 1, Len(evs))

\* C10: a close tag of a suppressed kind that has no open element of its
\* own kind to match, inserted anywhere in the stream, changes neither the
\* suppression depth nor the text returned, also while an element of
\* another suppressed kind is open.
C10_UnmatchedCloseAbsorbed ==
    \A n \in 0..Len(fed) : \A t \in ReducerTags :
        (Lower(t) \in SKIP_TAGS /\ OpenOfKind(SubSeq(fed, 1, n), Lower(t)) = 0) =>
            LET with == Feed(HTMLTextExtractor_init, InsertAt(fed, n, EndEv(t)))
            IN  /\ with.skip_depth = skip_depth
                /\ HTMLTextExtractor_get_text(with) = HTMLTextExtractor_get_text(ReducerState)

\* some element of a suppressed kind is open after the events evs
InsideSuppressed(evs) == \E kind \in SKIP_TAGS : OpenOfKind(evs, kind) > 0

\* the data of evs that arrive while no element of a suppressed kind is open
RECURSIVE VisibleData(_)
VisibleData(evs) ==
    IF evs = <<>> THEN <<>>
    ELSE LET before == SubSeq(evs, 1, Len(evs) - 1)
             ev == evs[Len(evs)]
         IN  IF ev.type = "data" /\ ~InsideSuppressed(before)
             THEN Append(VisibleData(before), ev.data)
             ELSE VisibleData(before)

\* C11: the pieces kept are exactly the text events that arrived at depth
\* zero: text between the open tag and the matching close tag of a script,
\* style, noscript or head element is never kept, text outside of them
\* always is.
C11_OnlyVisibleTextKept ==
    /\ pieces = VisibleData(fed)
    /\ got_text => text = Strip(CollapseWs(Join(VisibleData(fed))))

\* ------------------------------------------------------------------------
\* The reducer applied to text: extractor.feed(html) on a string
\* ------------------------------------------------------------------------
\* The characters of the texts the reducer returns here are the letters a
\* and b, whitespace, "<", ">" and "&".  On such a string HTMLParser.feed
\* (convert_charrefs is on, close() is never called) works from the left:
\*   - the text up to the next "<" is one data event; when no "<" follows
\*     and the last "&" has no whitespace after it, the rest is held back
\*     as a character reference that may still be completed, and since
\*     the parser is never closed it is never delivered;
\*   - "<" followed by a letter opens a tag that runs to the next ">", its
\*     name being the first word after the "<"; without a ">" the rest is
\*     held back and never delivered;
\*   - "<" followed by anything else is the data event "<"; a "<" that ends
\*     the string is held back.
\* No character reference can be spelt with these characters, so unescape
\* leaves the data as it is.
TextLetters == {"a", "b"}

\* str.find(c, start), counted from 1; 0 when c does not occur from start on
FindFrom(t, c, start) ==
    LET js == {j \in start..Len(t) : t[j] = c}
    IN  IF js = {} THEN 0 ELSE CHOOSE j \in js : \A k \in js : j <= k

\* the last "&" of t is followed by no whitespace
AmpPending(t) ==
    \E k \in 1..Len(t) :
        /\ t[k] = "&"
        /\ \A m \in (k + 1)..Len(t) : t[m] # "&" /\ t[m] \notin Whitespace

RECURSIVE FirstWord(_)
FirstWord(s) ==
    IF s = <<>> \/ Head(s) \in Whitespace THEN <<>>
    ELSE <<Head(s)>> \o FirstWord(Tail(s))

\* the name of a tag spelt with these characters: a, b, or a longer word,
\* which is no element the reducer knows
TagName(cs) ==
    LET w == FirstWord(cs)
    IN  IF w = <<"a">> THEN "a" ELSE IF w = <<"b">> THEN "b" ELSE "ab"

\* the events HTMLParser.feed delivers for the string t
RECURSIVE Tokenize(_)
Tokenize(t) ==
    IF t = <<>> THEN <<>>
    ELSE LET lt == FindFrom(t, "<", 1)
         IN  IF lt = 0
             THEN IF AmpPending(t) THEN <<>> ELSE <<DataEv(t)>>
             ELSE IF lt > 1
             THEN <<DataEv(SubSeq(t, 1, lt - 1))>> \o Tokenize(SubSeq(t, lt, Len(t)))
             ELSE IF Len(t) = 1 THEN <<>>
             ELSE IF t[2] \in TextLetters
             THEN LET gt == FindFrom(t, ">", 1)
                  IN  IF gt = 0 THEN <<>>
                      ELSE <<StartEv(TagName(SubSeq(t, 2, gt - 1)))>>
                               \o Tokenize(SubSeq(t, gt + 1, Len(t)))
             ELSE <<DataEv(<<"<">>)>> \o Tokenize(Tail(t))

\* extract_text applied to a string
extract_text_str(t) == extract_text(Tokenize(t))

\* the text t is in the form get_text leaves: its only whitespace is single
\* spaces between other characters
Collapsed(t) ==
    /\ \A k \in 1..Len(t) : t[k] \in Whitespace => t[k] = " "
    /\ \A k \in 1..(Len(t) - 1) : ~(t[k] = " " /\ t[k + 1] = " ")
    /\ t # <<>> => (t[1] # " " /\ t[Len(t)] # " ")

HasMarkupChar(t) == \E k \in 1..Len(t) : t[k] \in {"<", "&"}

\* C18 as stated: applying the Markup Reducer to text that is already its
\* output returns the same text.
C18_ReduceIdempotent ==
    got_text => extract_text_str(text) = text

\* C18: the text returned has no run of whitespace and no leading or
\* trailing whitespace, and when it contains neither "<" nor "&", applying
\* the Markup Reducer to it returns the same text.
C18_CollapseIdempotent ==
    got_text =>
        /\ Collapsed(text)
        /\ ~HasMarkupChar(text) => extract_text_str(text) = text

\* a text with a run of whitespace inside has been reduced to a non-empty
\* text free of markup characters
C18_Witness ==
    /\ got_text
    /\ text # <<>>
    /\ ~HasMarkupChar(text)
    /\ \E k \in 1..Len(text) : text[k] = " "
    /\ ~Collapsed(Strip(Join(pieces)))

\* ------------------------------------------------------------------------
\* The classifier driven start tag by start tag
\* ------------------------------------------------------------------------
IndexUrl0 == Url("https", "example.com", <<>>, "", "")
IndexUrl3 == Url("https", "example.com", <<"media-centre", "news-releases", "archive">>, "", "")

BaseUrls == {IndexUrl0, IndexUrl1, IndexUrl2, IndexUrl3}

HrefArchive == Href("root", "", "", <<"media-centre", "news-releases", "archive">>, "", "")
HrefArchiveSlash == Href("abs", "https", "example.com", <<"media-centre", "news-releases", "archive", "">>, "", "top")
HrefCase    == Href("root", "", "", <<"Media-Centre", "news-releases", "2024", "story-one">>, "", "")
HrefShallow == Href("root", "", "", <<"media-centre", "about">>, "", "")

ClassifierTags ==
    { Anchor(h) : h \in {NoHref, HrefStory1, HrefStory1Frag, HrefStory2, HrefStory3,
                         HrefNews1, HrefTag, HrefOther, HrefLogo, HrefMailto, HrefFrag,
                         HrefFtp, HrefArchive, HrefArchiveSlash, HrefCase, HrefShallow} }
    \cup {OtherTag("A", HrefStory2), OtherTag("p", HrefStory1)}

LinkExtractorState ==
    [base_url |-> parser_base_url, base_domain |-> parser_base_domain,
     base_path |-> parser_base_path, links |-> parser_links]

InitClassifier == CrawlIdle /\ ReducerIdle /\ ClassifierIdle

\* LinkExtractor(base_url)
LinkExtractor_new ==
    /\ parser_base_url = None
    /\ \E u \in BaseUrls :
        LET le == LinkExtractor_init(u) IN
        /\ parser_base_url' = le.base_url
        /\ parser_base_domain' = le.base_domain
        /\ parser_base_path' = le.base_path
        /\ parser_links' = le.links
    /\ UNCHANGED <<relaxed, anchors>>
    /\ UNCHANGED rvars
    /\ UNCHANGED cvars

\* scrape_articles, line 165: raw_parser.base_path = "/"
relax_scope ==
    /\ parser_base_url # None
    /\ anchors = <<>>
    /\ ~relaxed
    /\ parser_base_path' = <<"">>
    /\ relaxed' = TRUE
    /\ UNCHANGED <<parser_base_url, parser_base_domain, parser_links, anchors>>
    /\ UNCHANGED rvars
    /\ UNCHANGED cvars

\* LinkExtractor.handle_starttag called by feed
link_starttag ==
    /\ parser_base_url # None
    /\ Len(anchors) < MaxAnchors
    /\ \E ev \in ClassifierTags :
        /\ anchors' = Append(anchors, ev)
        /\ parser_links' = LinkExtractor_handle_starttag(LinkExtractorState, ev.tag, ev.href).links
    /\ UNCHANGED <<parser_base_url, parser_base_domain, parser_base_path, relaxed>>
    /\ UNCHANGED rvars
    /\ UNCHANGED cvars

NextClassifier ==
    \/ LinkExtractor_new
    \/ relax_scope
    \/ link_starttag

SpecClassifier == InitClassifier /\ [][NextClassifier]_vars

\* ------------------------------------------------------------------------
\* Properties of the Link Classifier (SpecClassifier)
\* ------------------------------------------------------------------------
\* a URL without its fragment
Canonical(u) == [u EXCEPT !.fragment = ""]

\* the start tag is an anchor whose href is resolved against the base URL
Resolves(ev) == Lower(ev.tag) = "a" /\ ev.href.kind \in {"abs", "root", "rel"}

\* the canonical URL the anchor stands for
Target(ev) == Canonical(urljoin(parser_base_url, ev.href))

\* how often the URL u is in the output list
CountOf(u) == Cardinality({k \in 1..Len(parser_links) : parser_links[k] = u})

\* the classifier with its present scope accepts the anchor into an empty list
AcceptedAlone(ev) ==
    LinkExtractor_handle_starttag([LinkExtractorState EXCEPT !.links = <<>>],
                                  ev.tag, ev.href).links # <<>>

\* C12: the output list has no URL twice and no entry with a fragment; two
\* anchors whose resolved URLs differ only in the fragment give one entry
\* (none when the classifier rejects the URL).
C12_DeduplicatedWithoutFragment ==
    parser_base_url # None =>
        /\ \A a, b \in 1..Len(parser_links) : a # b => parser_links[a] # parser_links[b]
        /\ \A a \in 1..Len(parser_links) : parser_links[a].fragment = ""
        /\ \A m, n \in 1..Len(anchors) :
            ( /\ m < n
              /\ Resolves(anchors[m])
              /\ Resolves(anchors[n])
              /\ Target(anchors[m]) = Target(anchors[n]) )
            => CountOf(Target(anchors[m])) = IF AcceptedAlone(anchors[m]) THEN 1 ELSE 0

\* an accepted URL was met twice, with and without a fragment
C12_Witness ==
    /\ parser_base_url # None
    /\ Len(anchors) = 2
    /\ Resolves(anchors[1])
    /\ Resolves(anchors[2])
    /\ anchors[1].href.fragment # anchors[2].href.fragment
    /\ Target(anchors[1]) = Target(anchors[2])
    /\ parser_links = <<Target(anchors[1])>>

\* C13: the output list only grows by appending the URL of the anchor just
\* met, which was not in the list; no entry is ever moved or removed.
C13_AppendOnlyFirstSeenOrder ==
    [][ \/ parser_links' = parser_links
        \/ /\ Len(parser_links') = Len(parser_links) + 1
           /\ SubSeq(parser_links', 1, Len(parser_links)) = parser_links
           /\ Len(anchors') = Len(anchors) + 1
           /\ parser_links'[Len(parser_links')] = Target(anchors'[Len(anchors')])
           /\ CountOf(Target(anchors'[Len(anchors')])) = 0 ]_vars

\* a URL already in the list was met again after another URL was added
C13_Witness ==
    /\ parser_base_url # None
    /\ Len(anchors) = 3
    /\ Len(parser_links) = 2
    /\ Resolves(anchors[3])
    /\ Target(anchors[3]) = parser_links[1]

\* C14: every entry has scheme http or https and the host of the base URL,
\* compared without case.
C14_SameDomainHttpOnly ==
    parser_base_url # None =>
        \A a \in 1..Len(parser_links) :
            /\ parser_links[a].scheme \in {"http", "https"}
            /\ LowerStr(parser_links[a].netloc) = LowerStr(parser_base_url.netloc)

\* an anchor to another domain was rejected, one whose host differs by case
\* only was accepted
C14_Witness ==
    /\ parser_base_url # None
    /\ \E m \in 1..Len(anchors) :
        /\ Resolves(anchors[m])
        /\ LowerStr(Target(anchors[m]).netloc) # LowerStr(parser_base_url.netloc)
    /\ \E a \in 1..Len(parser_links) :
        parser_links[a].netloc # parser_base_url.netloc

\* the URL u is the page b itself, whatever its trailing slash and query
SamePage(u, b) ==
    /\ u.scheme = b.scheme
    /\ LowerStr(u.netloc) = LowerStr(b.netloc)
    /\ RStripSlash(u.path) = RStripSlash(b.path)

\* C15: the index page's own URL is never in the output list.
C15_IndexPageNotAnArticle ==
    parser_base_url # None =>
        \A a \in 1..Len(parser_links) : ~SamePage(parser_links[a], parser_base_url)

\* the parent directory of the last segment of the path, the segment
\* itself when it is the only one, "/" when there is none
ParentDirectory(path) ==
    LET segs == NonEmptySegments(path)
    IN  IF Len(segs) = 0 THEN <<"">>
        ELSE IF Len(segs) = 1 THEN <<segs[1], "">>
        ELSE [k \in 1..Len(segs) |-> IF k = Len(segs) THEN "" ELSE segs[k]]

\* C16: in normal scope basePath is the parent directory of the index URL's
\* last segment and ends with a slash, and every entry's path, with one
\* trailing slash, starts with basePath as written and is not basePath.
C16_UnderBasePath ==
    (parser_base_url # None /\ ~relaxed) =>
        /\ parser_base_path = ParentDirectory(parser_base_url.path)
        /\ parser_base_path[Len(parser_base_path)] = ""
        /\ \A a \in 1..Len(parser_links) :
            LET path == Append(RStripSlash(parser_links[a].path), "")
            IN  /\ Len(path) >= Len(parser_base_path)
                /\ \A k \in 1..(Len(parser_base_path) - 1) : path[k] = parser_base_path[k]
                /\ path # parser_base_path

\* under a base path of two segments, an anchor under the sibling directory
\* was accepted and one whose prefix differs by case was met and rejected
C16_Witness ==
    /\ parser_base_url # None
    /\ ~relaxed
    /\ Len(parser_base_path) = 2
    /\ \E m \in 1..Len(anchors) :
        /\ Resolves(anchors[m])
        /\ Target(anchors[m]).path[1] # parser_base_path[1]
        /\ LowerStr(Target(anchors[m]).path[1]) = parser_base_path[1]
        /\ CountOf(Target(anchors[m])) = 0
    /\ parser_links # <<>>

\* C17: in normal and in domain-root scope, every entry has at least 3
\* non-empty path segments and none that, lower-cased, is an ignored one.
C17_DeepAndNotIgnored ==
    parser_base_url # None =>
        \A a \in 1..Len(parser_links) :
            LET segs == NonEmptySegments(parser_links[a].path)
            IN  /\ Len(segs) >= 3
                /\ \A k \in 1..Len(segs) :
                    LowerStr(segs[k]) \notin
                        {"rss", "feed", "cdn-cgi", "tag", "category", "page", "author"}

\* in domain-root scope an anchor of two segments and one with the segment
\* Tag were met and rejected, another anchor was accepted
C17_Witness ==
    /\ parser_base_url # None
    /\ relaxed
    /\ parser_links # <<>>
    /\ \E m \in 1..Len(anchors) :
        /\ Resolves(anchors[m])
        /\ Len(NonEmptySegments(Target(anchors[m]).path)) = 2
    /\ \E m \in 1..Len(anchors) :
        /\ Resolves(anchors[m])
        /\ \E k \in 1..Len(Target(anchors[m]).path) : Target(anchors[m]).path[k] = "Tag"

====
